---- MODULE Spec2Model ----
(***************************************************************************)
(* Model of app.py: reduce_pdf_size (the PDF rewrite pipeline) and the     *)
(* "Shrink My PDF Now!" button handler that calls it.                      *)
(*                                                                         *)
(* One run is modelled: the handler calls reduce_pdf_size on an uploaded   *)
(* file, the function walks the pages and the images of each page, and     *)
(* the handler reports the result.  pypdf and Pillow are outside the       *)
(* repository: what a library call can do (succeed, return None, raise,    *)
(* pick a filter, produce some number of bytes) is an input of the model.  *)
(***************************************************************************)
EXTENDS Integers, Sequences, FiniteSets, TLC

\* ------------------------------------------------------------------------
\* Bounds of the model
\* ------------------------------------------------------------------------
MaxPages == 2
MaxImages == 2

\* ------------------------------------------------------------------------
\* Program constants
\* ------------------------------------------------------------------------
\* `if image_quality < 100`
NoRecompressQuality == 100
\* `elif image_quality <= 40`
AggressiveQuality == 40
\* `compression_level = 9` in the handler, level=compression_level in the call
MaxCompressionLevel == 9
\* `10 * 1024 * 1024`
TenMB == 10 * 1024 * 1024

\* ------------------------------------------------------------------------
\* Python values
\* ------------------------------------------------------------------------
PyNone == [t |-> "None"]
PyInt(n) == [t |-> "int", v |-> n]

\* ------------------------------------------------------------------------
\* Inputs
\* ------------------------------------------------------------------------
DCT == "/DCTDecode"
JPX == "/JPXDecode"
FLATE == "/FlateDecode"
Filters == {DCT, JPX, FLATE}

\* The filter of an image stored by replace(image, quality=...), which declares
\* none: the library picks it from the decoded image, and that of a decoded
\* photograph is one of the two photographic ones.
LibraryFilters == {DCT, JPX}

\* What the library does with one image object of the document:
\*   ok           every call on it succeeds
\*   no_get       the object has no .get attribute
\*   no_data      .image is None
\*   decode_err   .image raises
\*   encode_err   convert/save/replace raises
\*   enum_err     building the page's image list raises on this image
Faults == {"ok", "no_get", "no_data", "decode_err", "encode_err", "enum_err"}

\* The images a document is built from: a sound image of each filter, every
\* fault on an image that is not photographic, and the fault of the encoder on a
\* photographic one (the faults met before the filter is looked at act alike on
\* every filter).
SourceImages ==
    [filter : Filters, fault : {"ok"}]
        \cup [filter : {FLATE}, fault : Faults]
        \cup [filter : {DCT}, fault : {"encode_err"}]

Qualities == {0, AggressiveQuality, AggressiveQuality + 1, NoRecompressQuality - 1, NoRecompressQuality}
Levels == {0, MaxCompressionLevel}
InputSizes == {TenMB + 1}
OutputSizes == {TenMB - 1, TenMB}

RECURSIVE SeqsUpTo(_, _)
SeqsUpTo(S, n) ==
    IF n = 0 THEN {<<>>}
    ELSE LET shorter == SeqsUpTo(S, n - 1)
         IN  shorter \cup {Append(s, x) : s \in {t \in shorter : Len(t) = n - 1}, x \in S}

RECURSIVE SumLen(_)
SumLen(pages) ==
    IF pages = <<>> THEN 0 ELSE Len(Head(pages)) + SumLen(Tail(pages))

\* The pages a document can have after the pages already read from it: a page
\* is the sequence of its images, and a document holds at most MaxImages images.
PagesAfter(pages) == SeqsUpTo(SourceImages, MaxImages - SumLen(pages))

\* An uploaded file: bytes of some length that parse to a document of some
\* number of pages, or do not parse.  What a page holds is read with the page.
UploadedFiles ==
    [size : InputSizes, valid : {TRUE}, page_count : 0..MaxPages]
        \cup [size : InputSizes, valid : {FALSE}, page_count : {0}]

VARIABLES
    pc,                  \* position in the handler and in reduce_pdf_size
    uploaded_file,
    compression_level,
    image_quality,
    original_size_bytes,
    reader,              \* the pages read from reader.pages so far
    writer,              \* writer.pages
    optimized,           \* compress_identical_objects has run on writer
    page_num,
    images_on_page,      \* the list built at line 56
    img_idx,             \* position of the for loop over images_on_page
    visited,             \* visited[p][i]: times image i of output page p was the loop's object
    diagnostics,         \* the st.warning / st.info / st.error calls, in order
    error,               \* the exception that reached the outer except, if any
    result,              \* the tuple reduce_pdf_size returned
    download_offered     \* st.download_button was called

vars == <<pc, uploaded_file, compression_level, image_quality, original_size_bytes,
          reader, writer, optimized, page_num, images_on_page, img_idx, visited,
          diagnostics, error, result, download_offered>>

NoFile == [size |-> 0, valid |-> FALSE, page_count |-> 0]
NoResult == [output_pdf_bytes |-> PyNone, original_size_bytes |-> PyNone,
             compressed_size_bytes |-> PyNone]

Init ==
    /\ pc = "idle"
    /\ uploaded_file = NoFile
    /\ compression_level = MaxCompressionLevel
    /\ image_quality = NoRecompressQuality
    /\ original_size_bytes = PyNone
    /\ reader = <<>>
    /\ writer = <<>>
    /\ optimized = FALSE
    /\ page_num = 0
    /\ images_on_page = <<>>
    /\ img_idx = 0
    /\ visited = <<>>
    /\ diagnostics = <<>>
    /\ error = "none"
    /\ result = NoResult
    /\ download_offered = FALSE

\* ------------------------------------------------------------------------
\* The handler calls reduce_pdf_size(uploaded_file, compression_level, image_quality)
\* ------------------------------------------------------------------------
Call(levels) ==
    /\ pc = "idle"
    /\ \E f \in UploadedFiles, level \in levels, quality \in Qualities :
        /\ uploaded_file' = f
        /\ compression_level' = level
        /\ image_quality' = quality
    /\ pc' = "read"
    /\ UNCHANGED <<original_size_bytes, reader, writer, optimized, page_num, images_on_page,
                   img_idx, visited, diagnostics, error, result, download_offered>>

\* A call with any level the function documents.
Click == Call(Levels)

\* The call the handler makes: compression_level = 9.
HandlerClick == Call({MaxCompressionLevel})

\* original_pdf_bytes = uploaded_file.getvalue(); original_size_bytes = len(...)
ReadInput ==
    /\ pc = "read"
    /\ original_size_bytes' = PyInt(uploaded_file.size)
    /\ pc' = "parse"
    /\ UNCHANGED <<uploaded_file, compression_level, image_quality, reader, writer, optimized,
                   page_num, images_on_page, img_idx, visited, diagnostics, error, result,
                   download_offered>>

\* reader = PdfReader(...); writer = PdfWriter()
ParseDocument ==
    /\ pc = "parse"
    /\ IF uploaded_file.valid
       THEN /\ reader' = <<>>
            /\ writer' = <<>>
            /\ page_num' = 0
            /\ pc' = "loop"
            /\ error' = error
       ELSE /\ error' = "parse"
            /\ pc' = "except"
            /\ UNCHANGED <<reader, writer, page_num>>
    /\ UNCHANGED <<uploaded_file, compression_level, image_quality, original_size_bytes,
                   optimized, images_on_page, img_idx, visited, diagnostics, result,
                   download_offered>>

\* for page_num in range(len(reader.pages))
LoopContinuesOffByOne(n, len) == n < len - 1
LoopContinues(n, len) == n < len

Untouched == [enc |-> "original", quality |-> -1, declared |-> "none"]

\* writer.add_page(page_from_reader) followed by compress_content_streams(level)
CopyPage(page, level) ==
    [level |-> level,
     images |-> [i \in 1..Len(page) |->
                    [filter |-> page[i].filter, fault |-> page[i].fault, data |-> Untouched]]]

\* current_page_in_writer = writer.pages[-1]
CurrentPageFirst(w) == 1
CurrentPageInWriter(w) == Len(w)

\* if image_quality < 100
WantsImageCompression(quality) == quality < NoRecompressQuality

\* Lines 41-51: one iteration of the page loop up to the image block.
AddPage ==
    /\ pc = "loop"
    /\ LoopContinues(page_num, uploaded_file.page_count)
    /\ \/ \E page_from_reader \in PagesAfter(reader) :
            /\ reader' = Append(reader, page_from_reader)
            /\ writer' = Append(writer, CopyPage(page_from_reader, compression_level))
            /\ visited' = Append(visited, [i \in 1..Len(page_from_reader) |-> 0])
            /\ page_num' = page_num + 1
            /\ pc' = IF WantsImageCompression(image_quality) THEN "snapshot" ELSE "loop"
            /\ error' = error
       \/ \* reader.pages[page_num], add_page or compress_content_streams raises
          /\ error' = "page"
          /\ pc' = "except"
          /\ UNCHANGED <<reader, writer, visited, page_num>>
    /\ UNCHANGED <<uploaded_file, compression_level, image_quality, original_size_bytes,
                   optimized, images_on_page, img_idx, diagnostics, result,
                   download_offered>>

\* images_on_page = list(current_page_in_writer.images): the image objects of the
\* page, each a handle on one image of that page of the writer.
ImagesOf(w, p) ==
    [i \in 1..Len(w[p].images) |->
        [page |-> p, index |-> i, filter |-> w[p].images[i].filter,
         fault |-> w[p].images[i].fault]]

EnumerationRaises(w, p) ==
    \E i \in 1..Len(w[p].images) : w[p].images[i].fault = "enum_err"

\* Line 56, outside the inner try.
SnapshotImages ==
    /\ pc = "snapshot"
    /\ LET cur == CurrentPageInWriter(writer)
       IN  IF EnumerationRaises(writer, cur)
           THEN /\ error' = "image_enum"
                /\ pc' = "except"
                /\ UNCHANGED <<images_on_page, img_idx>>
           ELSE /\ images_on_page' = ImagesOf(writer, cur)
                /\ img_idx' = 0
                /\ pc' = IF Len(writer[cur].images) = 0 THEN "loop" ELSE "image"
                /\ error' = error
    /\ UNCHANGED <<uploaded_file, compression_level, image_quality, original_size_bytes,
                   reader, writer, optimized, page_num, visited, diagnostics, result,
                   download_offered>>

\* "/DCTDecode" in img_filter_str or "/JPXDecode" in img_filter_str
IsPhotographicJpegOnly(filter) == filter = DCT
IsPhotographic(filter) == filter \in {DCT, JPX}

\* elif image_quality <= 40
IsAggressiveStrict(quality) == quality < AggressiveQuality
IsAggressive(quality) == quality <= AggressiveQuality

Note(level, what, obj) == [level |-> level, what |-> what, page |-> obj.page, image |-> obj.index]

\* The body of the inner try for one image object (lines 59-98): what is reported
\* and what the image is replaced by.  lib_filter is the filter the library gives
\* an image replaced without a declared filter.
NoReport == [level |-> "none", what |-> "none", page |-> 0, image |-> 0]
Kept == [replaced |-> FALSE, filter |-> "none", data |-> Untouched]

\* What the two branches that replace the image report: nothing.
SuccessReportNoted(obj) == Note("info", "success", obj)
SuccessReport(obj) == NoReport

ImageOutcome(obj, quality, lib_filter) ==
    \* if not hasattr(pypdf_img_obj, 'get'): st.warning; continue
    IF obj.fault = "no_get"
    THEN [report |-> Note("warning", "unexpected_type", obj), image |-> Kept]
    \* pil_image_data = pypdf_img_obj.image raises: except Exception -> st.warning
    ELSE IF obj.fault = "decode_err"
    THEN [report |-> Note("warning", "general_error", obj), image |-> Kept]
    \* if pil_image_data is None: st.info; continue
    ELSE IF obj.fault = "no_data"
    THEN [report |-> Note("info", "no_data", obj), image |-> Kept]
    \* pypdf_img_obj.replace(pil_image_data, quality=image_quality)
    ELSE IF IsPhotographic(obj.filter)
    THEN IF obj.fault = "encode_err"
         THEN [report |-> Note("warning", "general_error", obj), image |-> Kept]
         ELSE [report |-> SuccessReport(obj),
               image |-> [replaced |-> TRUE, filter |-> lib_filter,
                          data |-> [enc |-> "pil", quality |-> quality, declared |-> "none"]]]
    \* convert("RGB"), save(format="JPEG", quality), replace(bytes, filter='/DCTDecode')
    ELSE IF IsAggressive(quality)
    THEN IF obj.fault = "encode_err"
         THEN [report |-> Note("warning", "general_error", obj), image |-> Kept]
         ELSE [report |-> SuccessReport(obj),
               image |-> [replaced |-> TRUE, filter |-> DCT,
                          data |-> [enc |-> "rgb_jpeg", quality |-> quality, declared |-> DCT]]]
    \* else: st.info(... not low enough to trigger aggressive conversion ...)
    ELSE [report |-> Note("info", "not_compressed", obj), image |-> Kept]

\* pypdf_img_obj.replace(...) acts on the image the object is a handle on.
Replace(w, obj, new) ==
    [w EXCEPT ![obj.page].images[obj.index] =
        [filter |-> new.filter, fault |-> @.fault, data |-> new.data]]

\* One iteration of `for pypdf_img_obj in images_on_page` (lines 58-98).
ProcessImage ==
    /\ pc = "image"
    /\ img_idx < Len(images_on_page)
    /\ \E lib_filter \in LibraryFilters :
        LET obj == images_on_page[img_idx + 1]
            out == ImageOutcome(obj, image_quality, lib_filter)
        IN  /\ writer' = IF out.image.replaced THEN Replace(writer, obj, out.image) ELSE writer
            /\ diagnostics' = IF out.report.level = "none" THEN diagnostics
                              ELSE Append(diagnostics, out.report)
            /\ visited' = [visited EXCEPT ![obj.page][obj.index] = @ + 1]
    /\ img_idx' = img_idx + 1
    /\ pc' = IF img_idx + 1 = Len(images_on_page) THEN "loop" ELSE "image"
    /\ UNCHANGED <<uploaded_file, compression_level, image_quality, original_size_bytes,
                   reader, optimized, page_num, images_on_page, error, result,
                   download_offered>>

\* writer.compress_identical_objects(remove_identicals=True, remove_orphans=True)
Optimize ==
    /\ pc = "loop"
    /\ ~LoopContinues(page_num, uploaded_file.page_count)
    /\ \/ /\ optimized' = TRUE
          /\ pc' = "write"
          /\ error' = error
       \/ /\ error' = "optimize"
          /\ pc' = "except"
          /\ optimized' = optimized
    /\ UNCHANGED <<uploaded_file, compression_level, image_quality, original_size_bytes,
                   reader, writer, page_num, images_on_page, img_idx, visited, diagnostics,
                   result, download_offered>>

\* writer.write(output_pdf_bytes): the bytes of the writer as it is now, n of them.
Serialize(w, opt, n) == [t |-> "BytesIO", len |-> n, pages |-> w, optimized |-> opt]

\* compressed_size_bytes = len(output_pdf_bytes.getvalue())
CompressedSizeFromInput(bytes, original) == original
CompressedSize(bytes, original) == PyInt(bytes.len)

\* Lines 106-111.
Write ==
    /\ pc = "write"
    /\ \/ \E n \in OutputSizes :
            LET output_pdf_bytes == Serialize(writer, optimized, n)
            IN  /\ result' = [output_pdf_bytes |-> output_pdf_bytes,
                              original_size_bytes |-> original_size_bytes,
                              compressed_size_bytes |->
                                  CompressedSize(output_pdf_bytes, original_size_bytes)]
                /\ pc' = "returned"
                /\ error' = error
       \/ /\ error' = "write"
          /\ pc' = "except"
          /\ result' = result
    /\ UNCHANGED <<uploaded_file, compression_level, image_quality, original_size_bytes,
                   reader, writer, optimized, page_num, images_on_page, img_idx, visited,
                   diagnostics, download_offered>>

\* return None, None, None
FailureResultKeepsSize(original) ==
    [output_pdf_bytes |-> PyNone, original_size_bytes |-> original,
     compressed_size_bytes |-> PyNone]
FailureResult(original) == NoResult

\* Where control goes after the except block: back to the caller.
AfterExceptRetry == "read"
AfterExcept == "returned"

\* except Exception as e: st.error(...); return None, None, None
Except ==
    /\ pc = "except"
    /\ diagnostics' = Append(diagnostics,
                             [level |-> "error", what |-> error, page |-> 0, image |-> 0])
    /\ result' = FailureResult(original_size_bytes)
    /\ pc' = AfterExcept
    /\ UNCHANGED <<uploaded_file, compression_level, image_quality, original_size_bytes,
                   reader, writer, optimized, page_num, images_on_page, img_idx, visited,
                   error, download_offered>>

\* ------------------------------------------------------------------------
\* The rest of the button handler
\* ------------------------------------------------------------------------
\* if compressed_pdf_bytes:
Truthy(x) == x # PyNone

\* if actual_compressed_size_bytes < (10 * 1024 * 1024)
UnderGoal(size) == size.v < TenMB

\* The message of the under-10MB branch (line 203) formats actual_compressed_bytes,
\* a name that is bound nowhere: evaluating it raises NameError, which nothing in
\* the script catches.
FeedbackRaises(size) == UnderGoal(size)

\* Lines 182-220: what the handler does with the tuple returned.  Without output
\* bytes it shows nothing more.  With them it shows the sizes and the feedback on
\* the 10MB goal, then calls st.download_button, unless the feedback raised.
ShowResult ==
    /\ pc = "returned"
    /\ IF ~Truthy(result.output_pdf_bytes)
       THEN pc' = "host_done" /\ download_offered' = FALSE
       ELSE IF FeedbackRaises(result.compressed_size_bytes)
       THEN pc' = "host_crashed" /\ download_offered' = FALSE
       ELSE pc' = "host_done" /\ download_offered' = TRUE
    /\ UNCHANGED <<uploaded_file, compression_level, image_quality, original_size_bytes,
                   reader, writer, optimized, page_num, images_on_page, img_idx, visited,
                   diagnostics, error, result>>

Run ==
    \/ ReadInput
    \/ ParseDocument
    \/ AddPage
    \/ SnapshotImages
    \/ ProcessImage
    \/ Optimize
    \/ Write
    \/ Except
    \/ ShowResult

Next == Click \/ Run

Spec == Init /\ [][Next]_vars

\* The runs the handler starts.  The script is sequential code: the step that is
\* enabled is taken.
HandlerNext == HandlerClick \/ Run

FairSpec == Init /\ [][HandlerNext]_vars /\ WF_vars(HandlerNext)

\* The phase of the run a position belongs to.
Phase ==
    CASE pc = "idle" -> "Idle"
      [] pc \in {"read", "parse"} -> "Parsing"
      [] pc \in {"loop", "snapshot", "image"} -> "Rebuilding"
      [] pc = "write" -> "Serializing"
      [] pc = "except" -> "Failed"
      [] OTHER -> IF result.output_pdf_bytes = PyNone THEN "Failed" ELSE "Done"

\* ------------------------------------------------------------------------
\* Vocabulary of the properties
\* ------------------------------------------------------------------------
Returned == pc \in {"returned", "host_done", "host_crashed"}
Succeeded == Returned /\ result.output_pdf_bytes # PyNone
Failed == Returned /\ result.output_pdf_bytes = PyNone
HostEnded == pc \in {"host_done", "host_crashed"}

Source(p, i) == reader[p][i]
NotesOf(p, i) == {k \in 1..Len(diagnostics) : diagnostics[k].page = p /\ diagnostics[k].image = i}
ErrorNotes == {k \in 1..Len(diagnostics) : diagnostics[k].level = "error"}
ImagePositions ==
    UNION {{<<p, i>> : i \in 1..Len(writer[p].images)} : p \in 1..Len(writer)}
ImageCount == SumLen(reader)

BelowFull == image_quality < NoRecompressQuality
AtOrBelowThreshold == image_quality <= AggressiveQuality
Photographic(img) == img.filter \in {DCT, JPX}

\* The image is one on which a call of the loop body fails or finds no data.
FailsSoftly(img) ==
    \/ img.fault \in {"no_get", "decode_err", "no_data"}
    \/ img.fault = "encode_err" /\ (Photographic(img) \/ AtOrBelowThreshold)

\* ------------------------------------------------------------------------
\* C1: a successful run returns a document with the pages of the source, as
\* many and in the same order, whatever happened to their images.
\* ------------------------------------------------------------------------
C1_PageCount ==
    Succeeded =>
        LET out == result.output_pdf_bytes.pages
        IN  /\ Len(out) = uploaded_file.page_count
            /\ Len(out) = Len(reader)
            /\ \A p \in 1..Len(out) :
                /\ out[p].level = compression_level
                /\ Len(out[p].images) = Len(reader[p])
                /\ \A i \in 1..Len(out[p].images) : out[p].images[i].fault = Source(p, i).fault

\* A successful run over two pages, on one of which every image failed.
C1_Witness ==
    /\ Succeeded
    /\ uploaded_file.page_count = MaxPages
    /\ \E p \in 1..Len(writer) :
        /\ Len(writer[p].images) > 0
        /\ \A i \in 1..Len(writer[p].images) :
            /\ writer[p].images[i].data = Untouched
            /\ \E k \in NotesOf(p, i) : diagnostics[k].level = "warning"

\* ------------------------------------------------------------------------
\* C2: a failure on one image, wherever it arises (the enumeration of the
\* page's images included), never aborts the run: the run succeeds, the image
\* keeps its bytes and filter, one diagnostic is recorded for it and every
\* image is still processed.
\* ------------------------------------------------------------------------
C2_ImageFailureNeverAborts ==
    (Returned /\ uploaded_file.valid /\ BelowFull
        /\ error \notin {"page", "optimize", "write"}) =>
        /\ Succeeded
        /\ \A p \in 1..Len(writer) : \A i \in 1..Len(writer[p].images) :
                /\ visited[p][i] = 1
                /\ (FailsSoftly(Source(p, i)) \/ Source(p, i).fault = "enum_err") =>
                    /\ writer[p].images[i].data = Untouched
                    /\ writer[p].images[i].filter = Source(p, i).filter
                    /\ Cardinality(NotesOf(p, i)) = 1

\* What does hold: the failures inside the loop body are absorbed.
C2_LoopBodyFailuresAbsorbed ==
    (Returned /\ uploaded_file.valid /\ BelowFull
        /\ error \notin {"page", "optimize", "write", "image_enum"}) =>
        /\ Succeeded
        /\ \A p \in 1..Len(writer) : \A i \in 1..Len(writer[p].images) :
                /\ visited[p][i] = 1
                /\ FailsSoftly(Source(p, i)) =>
                    /\ writer[p].images[i].data = Untouched
                    /\ writer[p].images[i].filter = Source(p, i).filter
                    /\ Cardinality(NotesOf(p, i)) = 1

\* ------------------------------------------------------------------------
\* C3 as stated: on an image that is not photographic, re-encoding is attempted
\* iff image_quality <= 40; between 41 and 99 the image is left as it is and
\* one informational diagnostic is recorded for it; at 100 no image is touched.
\* ------------------------------------------------------------------------
Decodes(img) == img.fault \in {"ok", "encode_err"}

Skipped(p, i) ==
    /\ writer[p].images[i].data = Untouched
    /\ writer[p].images[i].filter = Source(p, i).filter
    /\ Cardinality(NotesOf(p, i)) = 1
    /\ \A k \in NotesOf(p, i) : diagnostics[k].level = "info"

NothingDone(p, i) ==
    visited[p][i] = 0 /\ writer[p].images[i].data = Untouched /\ NotesOf(p, i) = {}

\* The re-encoding to JPEG took place, or it was given up with one record.
AttemptedLoosely(p, i) ==
    \/ writer[p].images[i].data # Untouched /\ NotesOf(p, i) = {}
    \/ writer[p].images[i].data = Untouched /\ Cardinality(NotesOf(p, i)) = 1

Attempted(p, i) ==
    \/ /\ writer[p].images[i].data =
            [enc |-> "rgb_jpeg", quality |-> image_quality, declared |-> DCT]
       /\ writer[p].images[i].filter = DCT
       /\ NotesOf(p, i) = {}
    \/ /\ Source(p, i).fault = "encode_err"
       /\ writer[p].images[i].data = Untouched
       /\ writer[p].images[i].filter = Source(p, i).filter
       /\ Cardinality(NotesOf(p, i)) = 1
       /\ \A k \in NotesOf(p, i) : diagnostics[k].level = "warning"

C4_FatalGivesNothing ==
    /\ (Returned /\ error # "none") =>
        /\ result.output_pdf_bytes = PyNone
        /\ result.original_size_bytes = PyNone
        /\ result.compressed_size_bytes = PyNone
        /\ Cardinality(ErrorNotes) = 1
        /\ ~download_offered
    /\ (Returned /\ error = "none") => (Succeeded /\ ErrorNotes = {})

\* A run that failed after a page had been rebuilt and an image replaced.
C4_Witness ==
    /\ pc = "host_done"
    /\ error = "write"
    /\ \E pi \in ImagePositions : writer[pi[1]].images[pi[2]].data # Untouched

\* ------------------------------------------------------------------------
\* C5: the phases of a run follow Idle -> Parsing -> Rebuilding -> Serializing
\* -> Done in that order, the only other step is to Failed, Done and Failed are
\* final, and every run reaches one of them.
\* ------------------------------------------------------------------------
PhaseOrder ==
    {<<"Idle", "Parsing">>, <<"Parsing", "Rebuilding">>, <<"Rebuilding", "Serializing">>,
     <<"Serializing", "Done">>}

PhaseStep ==
    \/ Phase' = Phase
    \/ <<Phase, Phase'>> \in PhaseOrder
    \/ Phase \in {"Parsing", "Rebuilding", "Serializing"} /\ Phase' = "Failed"

C5_Phases == [][PhaseStep]_vars /\ <>(Phase \in {"Done", "Failed"})

\* A run that went through every phase, and rebuilt pages on the way.
C5_Witness == Phase = "Done" /\ Len(writer) = MaxPages /\ pc = "host_done"

\* ------------------------------------------------------------------------
\* C6 as stated: below quality 100 the diagnostics hold one record for each
\* image attempted, a successful re-encoding included, in page order and then
\* image order.
\* ------------------------------------------------------------------------
IsImageNote(k) == diagnostics[k].level # "error"

\* Each record about an image is about a later image than the record before it.
InOrder ==
    \A k \in 2..Len(diagnostics) :
        IsImageNote(k) =>
            /\ IsImageNote(k - 1)
            /\ \/ diagnostics[k - 1].page < diagnostics[k].page
               \/ /\ diagnostics[k - 1].page = diagnostics[k].page
                  /\ diagnostics[k - 1].image < diagnostics[k].image

C6_OneRecordPerImage ==
    (Succeeded /\ BelowFull) =>
        /\ InOrder
        /\ \A p \in 1..Len(writer) : \A i \in 1..Len(writer[p].images) :
                Cardinality(NotesOf(p, i)) = 1

\* C6 as amended: one record for each image that was visited and not replaced
\* (a warning for a failure, an informational record for a skip), none for an
\* image re-encoded with success, in page order and then image order; never
\* more records than images.
C6_Diagnostics ==
    /\ InOrder
    /\ \A k \in 1..Len(diagnostics) :
        IsImageNote(k) =>
            /\ k <= ImageCount
            /\ diagnostics[k].page \in 1..Len(writer)
            /\ diagnostics[k].image \in 1..Len(writer[diagnostics[k].page].images)
            /\ \/ diagnostics[k].level = "warning"
                  /\ diagnostics[k].what \in {"unexpected_type", "general_error"}
               \/ diagnostics[k].level = "info"
                  /\ diagnostics[k].what \in {"no_data", "not_compressed"}
    /\ \A p \in 1..Len(writer) : \A i \in 1..Len(writer[p].images) :
        Cardinality(NotesOf(p, i)) =
            IF visited[p][i] = 1 /\ writer[p].images[i].data = Untouched THEN 1 ELSE 0

\* A run over two images, the first re-encoded and without a record, the
\* second skipped with one.
C6_Witness ==
    /\ Succeeded
    /\ Len(diagnostics) = 1
    /\ \E p \in 1..Len(writer) :
        /\ Len(writer[p].images) = 2
        /\ writer[p].images[1].data # Untouched
        /\ NotesOf(p, 2) # {}

\* ------------------------------------------------------------------------
\* C7: on success original_size_bytes is the length of the input, read before
\* parsing, and compressed_size_bytes is the length of the bytes returned, which
\* serialize the writer with every page appended and after its optimization.
\* ------------------------------------------------------------------------
C7_Sizes ==
    /\ pc \notin {"idle", "read"} => original_size_bytes = PyInt(uploaded_file.size)
    /\ Succeeded =>
        /\ result.original_size_bytes = PyInt(uploaded_file.size)
        /\ result.compressed_size_bytes = PyInt(result.output_pdf_bytes.len)
        /\ result.output_pdf_bytes.optimized
        /\ result.output_pdf_bytes.pages = writer
        /\ Len(result.output_pdf_bytes.pages) = uploaded_file.page_count

\* A successful run whose output holds a re-encoded image.
C7_Witness ==
    /\ Succeeded
    /\ result.compressed_size_bytes = PyInt(TenMB)
    /\ \E pi \in ImagePositions : writer[pi[1]].images[pi[2]].data # Untouched

\* ------------------------------------------------------------------------
\* C8 as stated: a photographic image is re-encoded at image_quality for every
\* quality below 100, whatever the threshold, and keeps its filter family.
\* ------------------------------------------------------------------------
Direct(q) == [enc |-> "pil", quality |-> q, declared |-> "none"]

C8_SameFamily ==
    \A p \in 1..Len(writer) : \A i \in 1..Len(writer[p].images) :
        LET src == Source(p, i)
            out == writer[p].images[i]
        IN  (Photographic(src) /\ src.fault = "ok" /\ visited[p][i] = 1) =>
                (out.data = Direct(image_quality) /\ out.filter = src.filter)

\* C8 as amended: a photographic image that decodes is handed to replace as
\* decoded, at image_quality, for every quality below 100, with no filter
\* declared: the filter it has afterwards is the library's choice.  When
\* replace raises the image is left as it was, with one warning.
C8_DirectReencode ==
    \A p \in 1..Len(writer) : \A i \in 1..Len(writer[p].images) :
        LET src == Source(p, i)
            out == writer[p].images[i]
        IN  (Photographic(src) /\ Decodes(src) /\ visited[p][i] = 1) =>
                IF src.fault = "ok"
                THEN /\ out.data = Direct(image_quality)
                     /\ out.filter \in LibraryFilters
                     /\ NotesOf(p, i) = {}
                ELSE /\ out.data = Untouched
                     /\ out.filter = src.filter
                     /\ \E k \in NotesOf(p, i) : diagnostics[k].level = "warning"

\* A JPEG 2000 image re-encoded above the threshold.
C8_Witness ==
    /\ image_quality = NoRecompressQuality - 1
    /\ \E pi \in ImagePositions :
        /\ Source(pi[1], pi[2]) = [filter |-> JPX, fault |-> "ok"]
        /\ writer[pi[1]].images[pi[2]].data = Direct(image_quality)

\* ------------------------------------------------------------------------
\* C9: below quality 100 the images of a page are listed before any is
\* replaced and each is visited once, and the objects visited are those of
\* the page appended last.
\* ------------------------------------------------------------------------
ExpectedVisits(p, i) ==
    IF ~BelowFull THEN 0
    ELSE IF p < Len(writer) THEN 1
    ELSE IF pc = "snapshot" \/ error = "image_enum" THEN 0
    ELSE IF pc = "image" THEN (IF i <= img_idx THEN 1 ELSE 0)
    ELSE 1

C9_VisitedOnce ==
    /\ \A p \in 1..Len(writer) : \A i \in 1..Len(writer[p].images) :
        /\ visited[p][i] = ExpectedVisits(p, i)
        /\ writer[p].images[i].data # Untouched => visited[p][i] = 1
    /\ pc = "image" =>
        /\ Len(images_on_page) = Len(writer[Len(writer)].images)
        /\ \A k \in 1..Len(images_on_page) :
            images_on_page[k].page = Len(writer) /\ images_on_page[k].index = k

\* The second page's two images, the first of them replaced, each visited once.
C9_Witness ==
    /\ pc = "loop"
    /\ Len(writer) = MaxPages
    /\ Len(writer[Len(writer)].images) = 2
    /\ writer[Len(writer)].images[1].data # Untouched
    /\ visited[Len(writer)] = <<1, 1>>

\* ------------------------------------------------------------------------
\* C10: when reduce_pdf_size returns success the handler offers the download,
\* whatever the compressed size.
\* ------------------------------------------------------------------------
C10_DownloadOffered == (HostEnded /\ Succeeded) => download_offered

====
